---- MODULE Spec2Model ----
(***************************************************************************)
(* The SCPI probing scripts doom.py, doom2.py and scpi_doom_tester.py as   *)
(* one state machine: a sequence of process invocations that share the     *)
(* files of the working directory.  Text (commands, responses, file lines) *)
(* is a sequence of one-character strings so that strip, substring,        *)
(* replace, split and join are computed as Python computes them.           *)
(***************************************************************************)
EXTENDS Integers, Sequences, FiniteSets, TLC

(* ------------------------------ bounds -------------------------------- *)
\* process invocations in one behaviour
MaxRuns == 2
\* iterations of the fuzz / learn loops (the scripts' `attempts` argument)
MaxAttempts == 2
\* candidates one smart-learn run may try before the model stops following it
MaxSeen == 3
\* how many entries of guess_suffixes, of POWER_QUALITY_GUESSES and of the follow-up
\* suffixes are iterated
MaxSuffixes == 2
\* how many entries of each hand-written list random.choice may return
MaxChoice == 2

(* --------------------------- text primitives -------------------------- *)
LowerChars == <<"a","b","c","d","e","f","g","h","i","j","k","l","m",
                "n","o","p","q","r","s","t","u","v","w","x","y","z">>
UpperChars == <<"A","B","C","D","E","F","G","H","I","J","K","L","M",
                "N","O","P","Q","R","S","T","U","V","W","X","Y","Z">>
\* the characters of the model in code-point order (Python compares str so)
CharOrder == <<"\n", " ", "*", ",", "-", ".", "0","1","2","3","4","5","6","7","8","9",
               ":", ">", "?">> \o UpperChars \o <<"_">> \o LowerChars
Whitespace == {" ", "\n"}

Range(s) == {s[k] : k \in DOMAIN s}

Ord(c) == CHOOSE k \in DOMAIN CharOrder : CharOrder[k] = c

\* str.upper(), one character
UpperChar(c) ==
  IF \E k \in DOMAIN LowerChars : LowerChars[k] = c
  THEN UpperChars[CHOOSE k \in DOMAIN LowerChars : LowerChars[k] = c]
  ELSE c

\* str.upper()
Upper(s) == [k \in DOMAIN s |-> UpperChar(s[k])]

\* str.lower()
Lower(s) ==
  [k \in DOMAIN s |->
     IF \E n \in DOMAIN UpperChars : UpperChars[n] = s[k]
     THEN LowerChars[CHOOSE n \in DOMAIN UpperChars : UpperChars[n] = s[k]]
     ELSE s[k]]

\* str.isalpha()
IsAlpha(s) == /\ Len(s) > 0
              /\ \A k \in DOMAIN s : s[k] \in Range(LowerChars) \cup Range(UpperChars)

\* `p in s` on str
Contains(s, p) ==
  \E k \in 0..(Len(s) - Len(p)) : SubSeq(s, k + 1, k + Len(p)) = p

\* str.startswith
StartsWith(s, p) == Len(p) <= Len(s) /\ SubSeq(s, 1, Len(p)) = p

RECURSIVE LStripChars(_, _)
\* str.lstrip(chars)
LStripChars(s, cs) ==
  IF s # <<>> /\ Head(s) \in cs THEN LStripChars(Tail(s), cs) ELSE s

RECURSIVE RStripChars(_, _)
\* str.rstrip(chars)
RStripChars(s, cs) ==
  IF s # <<>> /\ s[Len(s)] \in cs THEN RStripChars(SubSeq(s, 1, Len(s) - 1), cs) ELSE s

\* str.strip(chars)
StripChars(s, cs) == LStripChars(RStripChars(s, cs), cs)

\* str.strip()
Strip(s) == StripChars(s, Whitespace)

RECURSIVE Replace(_, _, _)
\* str.replace(old, new): leftmost non-overlapping occurrences, one pass
Replace(s, old, new) ==
  IF Len(s) < Len(old) THEN s
  ELSE IF SubSeq(s, 1, Len(old)) = old
       THEN new \o Replace(SubSeq(s, Len(old) + 1, Len(s)), old, new)
       ELSE <<Head(s)>> \o Replace(Tail(s), old, new)

RECURSIVE Split(_, _)
\* str.split(sep) for a one-character separator
Split(s, sep) ==
  IF \A k \in DOMAIN s : s[k] # sep THEN <<s>>
  ELSE LET k == CHOOSE j \in DOMAIN s : s[j] = sep /\ \A h \in 1..(j - 1) : s[h] # sep
       IN  <<SubSeq(s, 1, k - 1)>> \o Split(SubSeq(s, k + 1, Len(s)), sep)

RECURSIVE Join(_, _)
\* sep.join(parts)
Join(parts, sep) ==
  IF parts = <<>> THEN <<>>
  ELSE IF Len(parts) = 1 THEN parts[1]
  ELSE parts[1] \o sep \o Join(Tail(parts), sep)

RECURSIVE StrLess(_, _)
\* a < b on str
StrLess(a, b) ==
  IF b = <<>> THEN FALSE
  ELSE IF a = <<>> THEN TRUE
  ELSE IF Head(a) # Head(b) THEN Ord(Head(a)) < Ord(Head(b))
  ELSE StrLess(Tail(a), Tail(b))

RECURSIVE Sorted(_)
\* sorted(set of str)
Sorted(S) ==
  IF S = {} THEN <<>>
  ELSE LET m == CHOOSE x \in S : \A y \in S \ {x} : StrLess(x, y)
       IN  <<m>> \o Sorted(S \ {m})

\* [line.strip() for line in f if line.strip()]
StrippedLines(lines) ==
  SelectSeq([k \in DOMAIN lines |-> Strip(lines[k])], LAMBDA l : l # <<>>)

(* ------------------------- program constants -------------------------- *)
COMMAND_FILE == <<"s","c","p","i","_","c","o","m","m","a","n","d","_","l","i","s","t",".","t","x","t">>
LEARNED_PLAIN == <<"l","e","a","r","n","e","d","_","s","c","p","i","_","c","o","m","m","a","n","d","s","_","l","a","t","e","s","t",".","t","x","t">>
SKIP_PATTERNS == << <<"W","A","V",":","D","A","T","A","?">>, <<"D","I","S","P","l","a","y",":","D","A","T","A","?">> >>
POWER_QUALITY_GUESSES == << <<"V","R","M","S","?">>, <<"I","R","M","S","?">>, <<"T","H","D","?">>, <<"C","R","E","S","T","?">>, <<"F","A","C","T","O","R","?">>,
  <<"F","R","E","Q","?">>, <<"W","A","T","T","?">>, <<"R","I","P","P","l","e","?">>, <<"P","F","?">>, <<"R","E","A","L","?">>, <<"R","E","A","C","t","i","v","e","?">>, <<"A","P","P","A","r","e","n","t","?">>,
  <<"S","A","G","?">>, <<"A","N","G","L","E","?">>, <<"P","H","A","S","e","s","?">>, <<"V","O","L","T","a","g","e","?">>, <<"C","U","R","R","e","n","t","?">>, <<"V","A","L","u","e","?">>, <<"A","L","L","?">>,
  <<"E","N","E","R","g","y","?">>, <<"C","A","L","C","u","l","a","t","e","?">>, <<"S","T","A","T","e","?">> >>
FUZZ_ROOTS == << <<"C","H","A","N","n","e","l","1">>, <<"M","A","T","H","1">>, <<"B","U","S","1">>, <<"T","R","I","G","g","e","r">>, <<"D","I","S","P","l","a","y">>, <<"W","A","V","e","f","o","r","m">> >>
FUZZ_SUBS == << <<"S","C","A","L","e">>, <<"O","F","F","S","e","t">>, <<"C","O","U","P","l","i","n","g">>, <<"S","T","A","T","u","s">>, <<"G","R","A","D","i","n","g">>, <<"F","O","R","M">>,
  <<"S","O","U","R","c","e">> >>
LEARN_ROOTS == FUZZ_ROOTS \o << <<"M","E","A","S","u","r","e">>, <<"T","I","M","e","b","a","s","e">>, <<"S","Y","S","T","e","m">>, <<"P","O","W","e","r">> >>
LEARN_SUBS == FUZZ_SUBS \o << <<"O","P","E","R","a","t","o","r">>, <<"M","O","D","E">>, <<"T","Y","P","E">>, <<"D","I","S","P","l","a","y">>, <<"R","E","F","L","e","v","e","l">>,
  <<"Q","U","A","L","i","t","y">>, <<"R","I","P","P","l","e">> >>
LEARN_ROOTS2 == FUZZ_ROOTS \o << <<"M","E","A","S","u","r","e">>, <<"T","I","M","e","b","a","s","e">>, <<"S","Y","S","T","e","m">> >>
LEARN_SUBS2 == FUZZ_SUBS \o << <<"O","P","E","R","a","t","o","r">>, <<"M","O","D","E">>, <<"T","Y","P","E">> >>
GUESS_SUFFIXES == << <<"M","O","D","E","?">>, <<"S","O","U","R","c","e","?">>, <<"F","O","R","M","a","t","?">>, <<"S","T","A","T","u","s","?">>, <<"E","N","A","B","l","e","?">>,
  <<"T","Y","P","E","?">>, <<"S","C","A","L","e","?">>, <<"O","F","F","S","e","t","?">>, <<"C","O","U","P","l","i","n","g","?">>, <<"O","P","E","R","a","t","o","r","?">>, <<"D","I","S","P","l","a","y","?">>,
  <<"R","I","P","P","l","e","?">>, <<"P","E","R","C","e","n","t","?">>, <<"A","B","S","o","l","u","t","e","?">>, <<"L","O","W","?">>, <<"H","I","G","H","?">>, <<"M","I","D","?">>,
  <<"F","R","E","Q","r","e","f","e","r","e","n","c","e","?">>, <<"Q","U","A","L","i","t","y","?">>, <<"Q","U","A","L","i","t","y",":","D","I","S","P","l","a","y","?">>, <<"Q","U","A","L","i","t","y",":","S","T","A","T","e","?">>,
  <<"Q","U","A","L","i","t","y",":","V","A","L","u","e","?">>, <<"Q","U","A","L","i","t","y",":","A","L","L","?">>, <<"Q","U","A","L","i","t","y",":","V","O","L","T","a","g","e","?">>, <<"Q","U","A","L","i","t","y",":","C","U","R","R","e","n","t","?">>,
  <<"Q","U","A","L","i","t","y",":","T","H","D","?">>, <<"Q","U","A","L","i","t","y",":","W","A","T","T","s","?">>, <<"Q","U","A","L","i","t","y",":","F","A","C","T","O","R","?">>, <<"Q","U","A","L","i","t","y",":","F","R","E","Q","?">>,
  <<"Q","U","A","L","i","t","y",":","H","A","R","M","o","n","i","c","s","?">>, <<"Q","U","A","L","i","t","y",":","C","R","E","S","T","?">>, <<"Q","U","A","L","i","t","y",":","V","R","M","S","?">>, <<"Q","U","A","L","i","t","y",":","I","R","M","S","?">>,
  <<"Q","U","A","L","i","t","y",":","P","F","?">>, <<"Q","U","A","L","i","t","y",":","P","H","A","S","e","s","?">> >>
DEEP_SUFFIXES == << <<"?">>, <<"V","A","L","u","e","?">>, <<"S","T","A","T","e","?">>, <<"R","M","S","?">> >>
WAVEFORM_WRITES(channel) == << <<":","W","A","V",":","F","O","R","M"," ","B","Y","T","E">>, <<":","W","A","V",":","M","O","D","E"," ","N","O","R","M">>,
  <<":","W","A","V",":","P","O","I","N",":","M","O","D","E"," ","R","A","W">>, <<":","W","A","V",":","P","O","I","N"," ","1","2","0","0">>, <<":","W","A","V",":","S","O","U","R"," ">> \o channel >>
IDN_QUERY == <<"*","I","D","N","?">>

\* the emoji that open a result string, each one character of the text
MARK_SUCCESS == "[check]"
MARK_EMPTY == "[warning]"
MARK_ERROR == "[cross]"
MARK_DRY == "[zzz]"
ResSuccess(r) == <<MARK_SUCCESS, " ">> \o r
ResEmpty == <<MARK_EMPTY>> \o <<" ","E","m","p","t","y">>
ResEmptyTester == <<MARK_EMPTY>> \o <<" ","E","m","p","t","y"," ","r","e","s","p","o","n","s","e">>
ResError(e) == <<MARK_ERROR, " ">> \o e
ResDry == <<MARK_DRY>> \o <<" ","(","d","r","y","-","r","u","n",")">>
\* the arrow between a command and its result in log and focus files
ARROW == <<" ", "[arrow]", " ">>
\* the lines of a focus file: f"{cmd} [arrow] {result}\n" for every discovery
FocusLines(d) == [k \in DOMAIN d |-> d[k][1] \o ARROW \o d[k][2] \o <<"\n">>]

(* ------------------------------ inputs -------------------------------- *)
\* Python's None; the scripts only test these values for truth
None == <<>>

\* what the instrument answers to *IDN?
IDN == <<"R","I","G","O","L",",","M","S","O","5","0","7","4"," ","1",".","0","\n">>

\* what a query can do: return text (with the line end VISA leaves on it) or raise
Responses == { <<"O","N","\n">>, <<"\n">> }
ErrorMessages == { <<"V","I","_","E","R","R","O","R","_","T","M","O">> }
Outcomes == [kind : {"text"}, text : Responses] \cup [kind : {"raise"}, text : ErrorMessages]

\* contents scpi_command_list.txt may have when the first process starts
CommandFiles == {
  << <<":","C","H","A","N","n","e","l","1",":","S","C","A","L","e","?","\n">>, <<":","W","A","V",":","D","A","T","A","?","\n">>, <<"\n">>, <<":","P","O","W","e","r",":","Q","U","A","L","i","t","y",":","V","R","M","S","?","\n">>,
     <<":","D","I","S","P","l","a","y",":","D","A","T","A","?","\n">>, <<":","C","H","A","N","n","e","l","1",":","S","C","A","L","e","?","\n">>, <<":","P","O","W","e","r",":","Q","U","A","L","i","t","y",":","I","R","M","S",":","O","N",":","V","A","L","u","e","?","\n">> >> }

\* learned-command files earlier discovery runs against this instrument may have left
LearnedFiles == {
  <<>>,
  (<<"l","e","a","r","n","e","d","_","s","c","p","i","_","l","a","t","e","s","t","_","R","I","G","O","L","_","M","S","O","5","0","7","4","_","1","_","0",".","t","x","t">> :> << <<":","M","A","T","H","1",":","S","C","A","L","e","?","\n">> >>)
    @@ (LEARNED_PLAIN :> << <<":","M","A","T","H","1",":","O","F","F","S","e","t","?","\n">> >>)
    @@ (<<"l","e","a","r","n","e","d","_","f","o","c","u","s","_","l","a","t","e","s","t","_","R","I","G","O","L","_","M","S","O","5","0","7","4","_","1","_","0",".","t","x","t">>
          :> << <<":","P","O","W","e","r",":","Q","U","A","L","i","t","y",":","I","R","M","S","?">> \o ARROW \o <<"O","N","\n">> >>) }

Scripts == {"doom.py", "doom2.py", "scpi_doom_tester.py"}
ModesOf(s) ==
  CASE s = "doom.py" -> {"test", "group", "fuzz", "learn", "smart", "focus", "waveform",
                        "send"}
    [] s = "doom2.py" -> {"test", "group", "fuzz", "learn", "waveform"}
    [] OTHER -> {"test"}
\* the mode's own argument: the group name, the learn prefix, the focus target
ArgsOf(m) ==
  CASE m = "group" -> { <<"c","h","a","n">>, <<"s","y","s">> }
    [] m = "learn" -> { None, <<":","w","a","v">> }
    [] m = "smart" -> { None, <<"c","h","a","n">>, <<"C","H","A","N","n","e","l","1">> }
    [] m = "focus" -> { None, <<"w","a","v">> }
    [] m = "waveform" -> { <<"C","H","A","N","1">> }
    [] m = "send" -> { None, <<":","R","U","N">>, <<":","T","R","I","G",":","S","T","A","T","?">> }
    [] OTHER -> {None}
Targets == {"--ip", "--usb", "none"}
\* --wordlist: not given, or a file with these lines
NoWordlist == [given |-> FALSE, lines |-> <<>>]
Wordlists == { NoWordlist,
               [given |-> TRUE, lines |-> << <<"D","A","T","A","?","\n">>, <<"V","R","M","S","?","\n">>, <<"\n">>, <<"V","R","M","S","?","\n">> >>],
               [given |-> TRUE, lines |-> << <<"F","R","E","Q","\n">> >>] }
\* what the user types at the console prompt before standard input ends
Stdins == { << <<" "," ">>, <<":","T","R","I","G",":","S","T","A","T","?">>, <<"E","x","i","t">>, <<":","R","U","N">> >>, << <<":","R","U","N">> >> }
\* --depth
Depths == {1, 2}
\* DRY_RUN is a global of doom.py alone ("--dry-run" in sys.argv)
DryRunOf(s) == IF s = "doom.py" THEN BOOLEAN ELSE {FALSE}

(* ------------------------------- state -------------------------------- *)
VARIABLES
  files,      \* the working directory: file name -> lines
  files0,     \* the working directory as it was when this process started
  run,        \* process invocations started so far
  script, mode, DRY_RUN, arg, target, wordlist, depth,   \* this invocation's command line
  pc, exit,   \* where the process is, and how it ended
  interrupted, \* the user has pressed Ctrl+C during this process
  stdin,      \* the lines standard input still holds for input()
  eof,        \* input() has raised EOFError in this process
  pinky_logged, \* a discovery loop has logged its first chatter line
  thoughts,   \* how many phrases random_thinking() has logged in this process
  first,      \* what the first of two compared processes sent, found and logged
  conn,       \* the VISA session: "none", "open", "closed"
  scope, idn, \* what connect() returned
  sent,       \* every query/write handed to the transport by this process
  cmds, i,    \* the batch being iterated and the index of its next element
  known, results, discovered, seen,
  queue, base_path,   \* smart-learn: the paths still to expand, the one being expanded
  child_prefix, j,    \* focus: the follow-up prefix and the index of its next suffix
  written     \* timestamped files this process wrote

fileVars == <<files>>
argVars == <<files0, run, script, mode, DRY_RUN, arg, target, wordlist, depth, interrupted,
            first>>
ioVars == <<stdin, eof>>
logVars == <<pinky_logged, thoughts>>
connVars == <<conn, scope, idn>>
probeVars == <<cmds, i, known, results, discovered, seen, queue, base_path,
               child_prefix, j>>
vars == <<files, files0, run, script, mode, DRY_RUN, arg, target, wordlist, depth,
          interrupted, first, stdin, eof, pinky_logged, thoughts, pc, exit, conn, scope, idn,
          sent, cmds, i, known, results, discovered, seen, queue, base_path, child_prefix, j,
          written>>

Exists(name) == name \in DOMAIN files

\* no process has run to its end yet
NoProcess == [scope |-> FALSE, sent |-> <<>>, discovered |-> <<>>, thoughts |-> 0]

Init ==
  /\ \E f \in CommandFiles : \E l \in LearnedFiles :
       \/ files = (COMMAND_FILE :> f) @@ l
       \/ files = l
  /\ files0 = files
  /\ run = 0
  /\ script = "doom.py" /\ mode = "test" /\ DRY_RUN = FALSE /\ arg = None /\ target = "none"
  /\ wordlist = NoWordlist /\ depth = 1
  /\ pc = "shell" /\ exit = "none" /\ interrupted = FALSE
  /\ stdin = <<>> /\ eof = FALSE
  /\ pinky_logged = FALSE /\ thoughts = 0
  /\ first = NoProcess
  /\ conn = "none" /\ scope = FALSE /\ idn = None
  /\ sent = <<>>
  /\ cmds = <<>> /\ i = 1
  /\ known = {} /\ results = <<>> /\ discovered = <<>> /\ seen = {} /\ queue = <<>>
  /\ base_path = <<>> /\ child_prefix = <<>> /\ j = 1
  /\ written = <<>>

\* a process starts with fresh memory; the files are as the last process left them
Launch(s, m, a, d, t, w, n) ==
  /\ script' = s /\ mode' = m /\ arg' = a /\ DRY_RUN' = d /\ target' = t
  /\ wordlist' = w /\ depth' = n
  /\ run' = run + 1
  /\ files0' = files
  /\ pc' = "main" /\ exit' = "none" /\ interrupted' = FALSE
  /\ stdin' \in (IF m = "send" /\ a = None THEN Stdins ELSE {<<>>}) /\ eof' = FALSE
  /\ pinky_logged' = FALSE /\ thoughts' = 0
  /\ conn' = "none" /\ scope' = FALSE /\ idn' = None
  /\ sent' = <<>> /\ cmds' = <<>> /\ i' = 1
  /\ known' = {} /\ results' = <<>> /\ discovered' = <<>> /\ seen' = {} /\ queue' = <<>>
  /\ base_path' = <<>> /\ child_prefix' = <<>> /\ j' = 1
  /\ written' = <<>>
  /\ UNCHANGED <<files, first>>

\* one invocation of one of the scripts, with any command line
Start ==
  /\ pc = "shell"
  /\ \E s \in Scripts : \E m \in ModesOf(s) : \E a \in ArgsOf(m) :
     \E d \in DryRunOf(s) : \E t \in Targets :
     \E w \in (IF m = "focus" THEN Wordlists ELSE {NoWordlist}) :
     \E n \in (IF m = "focus" THEN Depths ELSE {1}) :
       Launch(s, m, a, d, t, w, n)

\* the modes that read or write learned-command files
LearningModes == {"test", "learn", "smart", "focus"}

\* one invocation after another in the same directory, reaching the same instrument
Invoke ==
  /\ pc \in {"shell", "done"} /\ run < MaxRuns
  /\ \E s \in {"doom.py", "doom2.py"} : \E m \in ModesOf(s) \cap LearningModes :
       Launch(s, m, None, FALSE, "--ip", NoWordlist, 1)

(* ------------------------------ files --------------------------------- *)
\* load_commands(): the stripped non-blank lines of the command list
load_commands == StrippedLines(files[COMMAND_FILE])

\* the tester's load_commands(): lines holding a skip pattern are dropped unread
tester_load_commands ==
  StrippedLines(SelectSeq(files[COMMAND_FILE],
    LAMBDA line : ~ \E k \in DOMAIN SKIP_PATTERNS : Contains(line, SKIP_PATTERNS[k])))

\* the file-name tag made of an identification string
Tag(id) == Strip(Replace(Replace(Replace(id, <<",">>, <<"_">>), <<" ">>, <<"_">>), <<".">>, <<"_">>))

\* the learned-command file load_all_commands(idn) reads
learned_file(id) ==
  IF id # None THEN <<"l","e","a","r","n","e","d","_","s","c","p","i","_","l","a","t","e","s","t","_">> \o Tag(id) \o <<".","t","x","t">> ELSE LEARNED_PLAIN

\* load_all_commands(idn): command list merged with the learned file, sorted
load_all_commands(id) ==
  Sorted(Range(load_commands) \cup
         (IF Exists(learned_file(id)) THEN Range(StrippedLines(files[learned_file(id)]))
          ELSE {}))

\* doom2.py's load_all_commands(): it knows one learned file only
load_all_commands2 ==
  Sorted(Range(load_commands) \cup
         (IF Exists(LEARNED_PLAIN) THEN Range(StrippedLines(files[LEARNED_PLAIN]))
          ELSE {}))

\* WriteFile as it would be with the files opened in append mode
WriteFileAppending(name, lines) ==
  IF Exists(name) THEN [files EXCEPT ![name] = @ \o lines] ELSE (name :> lines) @@ files

\* open(name, "w") ... write(lines): the file holds these lines and nothing else
WriteFile(name, lines) == (name :> lines) @@ files

\* the lines both learned files get: cmd.strip() + "\n" for every discovery
LearnedLines(d) == [k \in DOMAIN d |-> Strip(d[k][1]) \o <<"\n">>]

\* tag of the files a doom.py discovery run writes
WriteTag == IF idn # None THEN Tag(idn) ELSE <<"u","n","k","n","o","w","n">>

(* ---------------------------- transport ------------------------------- *)
\* one call of the transport, as the instrument saw it, with what came back
Query(cmd, o) == [op |-> "query", cmd |-> cmd, out |-> o]
Write(cmd, o) == [op |-> "write", cmd |-> cmd, out |-> o]
Returned == [kind |-> "text", text |-> <<>>]
Raised == [kind |-> "raise", text |-> <<"V","I","_","E","R","R","O","R","_","T","M","O">>]

\* any(skip in cmd for skip in SKIP_PATTERNS)
Skipped(cmd) == \E k \in DOMAIN SKIP_PATTERNS : Contains(cmd, SKIP_PATTERNS[k])

\* Classify as it would be if the exception text were left out of the result
ClassifyWithoutMessage(o) ==
  IF o.kind = "raise" THEN <<MARK_ERROR>>
  ELSE IF Strip(o.text) # <<>> THEN ResSuccess(Strip(o.text)) ELSE ResEmpty

\* Classify as it would be if the response were tested before it is stripped
ClassifyUnstripped(o) ==
  IF o.kind = "raise" THEN ResError(o.text)
  ELSE IF o.text # <<>> THEN ResSuccess(Strip(o.text)) ELSE ResEmpty

\* the result string of one query: stripped text classified, or the exception text
Classify(o) ==
  IF o.kind = "raise" THEN ResError(o.text)
  ELSE IF Strip(o.text) # <<>> THEN ResSuccess(Strip(o.text)) ELSE ResEmpty

\* ClassifyTester as it would be if the stripped response were not tested for emptiness
ClassifyTesterUntested(o) ==
  IF o.kind = "raise" THEN ResError(o.text) ELSE ResSuccess(Strip(o.text))

\* the tester words the empty case differently
ClassifyTester(o) ==
  IF o.kind = "raise" THEN ResError(o.text)
  ELSE IF Strip(o.text) # <<>> THEN ResSuccess(Strip(o.text)) ELSE ResEmptyTester

(* ------------------------- start of a process ------------------------- *)
Finish(how) == pc' = "done" /\ exit' = how

\* resolve_scope(argv), find_usb(): a missing target or no USB device ends the process
resolve_scope ==
  /\ pc = "main" /\ script \in {"doom.py", "doom2.py"} /\ mode # "send"
  /\ \/ target = "--ip" /\ pc' = "connect" /\ exit' = exit
     \/ target = "--usb" /\ pc' = "connect" /\ exit' = exit
     \/ target = "--usb" /\ Finish("sys.exit")
     \/ target = "none" /\ Finish("sys.exit")
  /\ UNCHANGED <<fileVars, argVars, ioVars, logVars, connVars, sent, probeVars, written>>

\* the tester's __main__: usage check, USB lookup, then the command list is read
tester_main ==
  /\ pc = "main" /\ script = "scpi_doom_tester.py"
  /\ \/ /\ target = "none" \/ target = "--usb"
        /\ Finish("sys.exit") /\ cmds' = cmds
     \/ /\ target # "none" /\ ~ Exists(COMMAND_FILE)
        /\ Finish("FileNotFoundError") /\ cmds' = cmds
     \/ /\ target # "none" /\ Exists(COMMAND_FILE)
        /\ cmds' = tester_load_commands
        /\ pc' = "connect" /\ exit' = exit
  /\ UNCHANGED <<fileVars, argVars, ioVars, logVars, connVars, sent, i, known, results, discovered,
                 seen, queue, base_path, child_prefix, j, written>>

\* where main goes once connect() has returned a handle
Body ==
  CASE script = "scpi_doom_tester.py" -> "test_scope"
    [] mode = "test" -> "test_all"
    [] mode = "group" -> "test_group"
    [] mode = "fuzz" -> "fuzz_scope"
    [] mode = "learn" -> "learn_scope"
    [] mode = "smart" -> "smart_learn_scope"
    [] mode = "focus" -> "focus_probe"
    [] mode = "waveform" -> "run_waveform_test"
    [] mode = "send" -> "send"
    [] OTHER -> "close"

\* connect as it would be if a failed connection ended the process
connectExiting ==
  /\ pc = "connect"
  /\ \/ /\ Finish("sys.exit")
        /\ UNCHANGED <<connVars, sent>>
     \/ /\ conn' = "open"
        /\ sent' = Append(sent, Query(IDN_QUERY, Raised))
        /\ Finish("sys.exit") /\ UNCHANGED <<scope, idn>>
     \/ /\ conn' = "open"
        /\ sent' = Append(sent, Query(IDN_QUERY, [kind |-> "text", text |-> IDN]))
        /\ scope' = TRUE
        /\ idn' = IF script = "doom.py" THEN IDN ELSE None
        /\ pc' = Body /\ exit' = exit
  /\ UNCHANGED <<fileVars, argVars, ioVars, logVars, probeVars, written>>

\* connect(): open the resource, ask *IDN?; any exception yields no handle
connect ==
  /\ pc = "connect"
  /\ \/ /\ Finish("return")
        /\ UNCHANGED <<connVars, sent>>
     \/ /\ conn' = "open"
        /\ sent' = Append(sent, Query(IDN_QUERY, Raised))
        /\ Finish("return") /\ UNCHANGED <<scope, idn>>
     \/ /\ conn' = "open"
        /\ sent' = Append(sent, Query(IDN_QUERY, [kind |-> "text", text |-> IDN]))
        /\ \/ /\ scope' = TRUE
              /\ idn' = IF script = "doom.py" THEN IDN ELSE None
              /\ pc' = Body /\ exit' = exit
  /\ UNCHANGED <<fileVars, argVars, ioVars, logVars, probeVars, written>>

(* ----------------------- test, group and fuzz ------------------------- *)
\* one iteration over a known command: skip it, fake it (dry run) or query it
ProbeKnown(skipping, dry, tester) ==
  LET cmd == Strip(cmds[i]) IN
  /\ i <= Len(cmds)
  /\ \/ /\ skipping /\ Skipped(cmd)
        /\ UNCHANGED <<sent, results>>
     \/ /\ ~ (skipping /\ Skipped(cmd)) /\ dry
        /\ results' = Append(results, <<cmd, ResDry>>)
        /\ UNCHANGED sent
     \/ /\ ~ (skipping /\ Skipped(cmd)) /\ ~ dry
        /\ \E o \in Outcomes :
             /\ sent' = Append(sent, Query(cmd, o))
             /\ results' = Append(results, <<cmd, IF tester THEN ClassifyTester(o) ELSE Classify(o)>>)
  /\ i' = i + 1
  /\ pc' = IF i = Len(cmds) THEN "save_log" ELSE pc
  /\ UNCHANGED <<fileVars, argVars, ioVars, logVars, connVars, exit, cmds, known, discovered, seen,
                 queue, base_path, child_prefix, j, written>>

\* entering a batch: the command list must exist, or load_commands() exits
EnterBatch(list, loop, empty) ==
  /\ \/ /\ ~ Exists(COMMAND_FILE)
        /\ Finish("sys.exit") /\ cmds' = cmds
     \/ /\ Exists(COMMAND_FILE)
        /\ cmds' = list
        /\ pc' = (IF list = <<>> THEN empty ELSE loop) /\ exit' = exit
  /\ UNCHANGED <<fileVars, argVars, ioVars, logVars, connVars, sent, i, known, results, discovered,
                 seen, queue, base_path, child_prefix, j, written>>

\* cmds of test_group: the known commands that start with ":" + prefix.upper()
GroupOf(list, prefix) ==
  SelectSeq(list, LAMBDA c : StartsWith(c, <<":">> \o Upper(prefix)))

\* doom.py test_all(scope, idn)
test_all ==
  /\ script = "doom.py"
  /\ \/ pc = "test_all" /\ EnterBatch(load_all_commands(idn), "test_all_loop", "save_log")
     \/ pc = "test_all_loop" /\ ProbeKnown(TRUE, DRY_RUN, FALSE)

\* doom.py test_group(scope, prefix, idn): the known list is loaded without the idn
test_group ==
  /\ script = "doom.py"
  /\ \/ pc = "test_group"
        /\ EnterBatch(GroupOf(load_all_commands(None), arg), "test_group_loop", "close")
     \/ pc = "test_group_loop" /\ ProbeKnown(TRUE, DRY_RUN, FALSE)

\* doom2.py test_all(scope): no skip patterns, no dry run
test_all2 ==
  /\ script = "doom2.py"
  /\ \/ pc = "test_all" /\ EnterBatch(load_all_commands2, "test_all_loop", "save_log")
     \/ pc = "test_all_loop" /\ ProbeKnown(FALSE, FALSE, FALSE)

\* doom2.py test_group(scope, prefix)
test_group2 ==
  /\ script = "doom2.py"
  /\ \/ pc = "test_group"
        /\ EnterBatch(GroupOf(load_all_commands2, arg), "test_group_loop", "close")
     \/ pc = "test_group_loop" /\ ProbeKnown(FALSE, FALSE, FALSE)

\* scpi_doom_tester.py test_scope(): the loop over the commands read before connecting
test_scope ==
  /\ script = "scpi_doom_tester.py"
  /\ \/ /\ pc = "test_scope"
        /\ pc' = (IF cmds = <<>> THEN "save_log" ELSE "test_scope_loop")
        /\ UNCHANGED <<fileVars, argVars, ioVars, logVars, connVars, exit, sent, probeVars, written>>
     \/ pc = "test_scope_loop" /\ ProbeKnown(FALSE, FALSE, TRUE)

\* the candidates random.choice can build from two lists: ":" + root + ":" + sub + "?"
Candidates(roots, subs) ==
  { <<":">> \o roots[a] \o <<":">> \o subs[b] \o <<"?">> :
      a \in 1..MaxChoice, b \in 1..MaxChoice }

\* one iteration of a fuzz loop: a random candidate, faked or queried, always recorded
FuzzOne(dry) ==
  /\ i <= MaxAttempts
  /\ \E cmd \in Candidates(FUZZ_ROOTS, FUZZ_SUBS) :
       \/ /\ dry
          /\ results' = Append(results, <<cmd, ResDry>>)
          /\ UNCHANGED sent
       \/ /\ ~ dry
          /\ \E o \in Outcomes :
               /\ sent' = Append(sent, Query(cmd, o))
               /\ results' = Append(results, <<cmd, Classify(o)>>)
  /\ i' = i + 1
  /\ pc' = IF i = MaxAttempts THEN "save_log" ELSE "fuzz_loop"
  /\ UNCHANGED <<fileVars, argVars, ioVars, logVars, connVars, exit, cmds, known, discovered, seen,
                 queue, base_path, child_prefix, j, written>>

\* doom.py fuzz_scope(scope, idn, attempts)
fuzz_scope ==
  /\ script = "doom.py" /\ pc \in {"fuzz_scope", "fuzz_loop"}
  /\ FuzzOne(DRY_RUN)

\* doom2.py fuzz_scope(scope, attempts)
fuzz_scope2 ==
  /\ script = "doom2.py" /\ pc \in {"fuzz_scope", "fuzz_loop"}
  /\ FuzzOne(FALSE)

(* ------------------------------ learn --------------------------------- *)
\* Names as it would be if the learn loop did not look at what it has discovered
NamesForgotten(d) == {}

\* [d[0] for d in discovered]
Names(d) == {d[k][1] : k \in DOMAIN d}

\* entering a discovery run: known = set(load_all_commands()), or exit without the list
EnterDiscovery(list, next) ==
  /\ \/ /\ ~ Exists(COMMAND_FILE)
        /\ Finish("sys.exit") /\ known' = known
     \/ /\ Exists(COMMAND_FILE)
        /\ known' = Range(list)
        /\ pc' = next /\ exit' = exit
  /\ UNCHANGED <<fileVars, argVars, ioVars, logVars, connVars, sent, cmds, i, results, discovered, seen,
                 queue, base_path, child_prefix, j, written>>

\* random_thinking(): half of the time a random phrase is logged
random_thinking == thoughts' \in {thoughts, thoughts + 1}

\* the end of a discovery iteration that was not cut short by `continue`: the first
\* one logs the fixed line, the later ones call random_thinking()
Chatter ==
  IF ~ pinky_logged THEN pinky_logged' = TRUE /\ thoughts' = thoughts
                    ELSE pinky_logged' = pinky_logged /\ random_thinking

\* what one candidate does to (sent, discovered): faked, or queried and kept when the
\* stripped answer is non-empty; an exception leaves no trace and skips the chatter
Try(cmd, dry) ==
  \/ /\ dry
     /\ discovered' = Append(discovered, <<cmd, ResDry>>)
     /\ Chatter
     /\ UNCHANGED sent
  \/ /\ ~ dry
     /\ \E o \in Outcomes :
          /\ sent' = Append(sent, Query(cmd, o))
          /\ discovered' = IF o.kind = "text" /\ Strip(o.text) # <<>>
                           THEN Append(discovered, <<cmd, Strip(o.text)>>)
                           ELSE discovered
          /\ IF o.kind = "raise" THEN UNCHANGED logVars ELSE Chatter

\* the candidates of doom.py's learn loop: the root is the prefix when one is given
LearnCandidates(prefix) ==
  IF prefix # None
  THEN { <<":">> \o Upper(StripChars(prefix, {":"})) \o <<":">> \o LEARN_SUBS[b] \o <<"?">> :
           b \in 1..MaxChoice }
  ELSE Candidates(LEARN_ROOTS, LEARN_SUBS)

\* one iteration of a learn loop
LearnOne(cands, skipping, dry) ==
  /\ i <= MaxAttempts
  /\ \E cmd \in cands :
       IF cmd \in known \/ cmd \in Names(discovered) \/ (skipping /\ Skipped(cmd))
       THEN UNCHANGED <<sent, discovered, logVars>>
       ELSE Try(cmd, dry)
  /\ i' = i + 1
  /\ pc' = IF i = MaxAttempts THEN "persist" ELSE "learn_loop"
  /\ UNCHANGED <<fileVars, argVars, ioVars, connVars, exit, cmds, known, results, seen, queue,
                 base_path, child_prefix, j, written>>

\* doom.py learn_scope(scope, idn, attempts, prefix): main strips ":" off --prefix
learn_scope ==
  /\ script = "doom.py"
  /\ \/ pc = "learn_scope" /\ EnterDiscovery(load_all_commands(None), "learn_loop")
     \/ /\ pc = "learn_loop"
        /\ LearnOne(LearnCandidates(StripChars(arg, {":"})), TRUE, DRY_RUN)

\* doom2.py learn_scope(scope, attempts)
learn_scope2 ==
  /\ script = "doom2.py"
  /\ \/ pc = "learn_scope" /\ EnterDiscovery(load_all_commands2, "learn_loop")
     \/ /\ pc = "learn_loop"
        /\ LearnOne(Candidates(LEARN_ROOTS2, LEARN_SUBS2), FALSE, FALSE)

(* --------------------------- smart learn ------------------------------ *)
\* build_scpi_tree(): the upper-cased ":"-separated parts of every line of the list
TreePaths ==
  { LET parts == Split(StripChars(Strip(files[COMMAND_FILE][k]), {":"}), ":")
    IN  [n \in DOMAIN parts |-> Upper(parts[n])] : k \in DOMAIN files[COMMAND_FILE] }

\* the node reached from the root by `parts` has children (`if not node` is false)
HasNode(parts) ==
  \E p \in TreePaths : Len(p) > Len(parts) /\ SubSeq(p, 1, Len(parts)) = parts

\* prefix_parts of smart_learn_scope: main passes `prefix or ""`
PrefixParts(prefix) ==
  IF prefix # None
  THEN LET parts == Split(StripChars(prefix, {":"}), ":")
       IN  [n \in DOMAIN parts |-> Upper(parts[n])]
  ELSE <<>>

guess_suffixes == SubSeq(GUESS_SUFFIXES, 1, MaxSuffixes)

\* the candidate built from a base path and a suffix
Trial(path, suffix) ==
  Replace(<<":">> \o Join(path, <<":">>) \o <<":">> \o suffix, <<":",":">>, <<":">>)

\* doom.py smart_learn_scope(scope, idn, prefix)
smart_learn_scope ==
  /\ script = "doom.py"
  /\ \/ /\ pc = "smart_learn_scope"
        /\ \/ /\ ~ Exists(COMMAND_FILE)
              /\ Finish("sys.exit")
              /\ UNCHANGED <<known, queue>>
           \/ /\ Exists(COMMAND_FILE)
              /\ known' = Range(load_all_commands(None))
              /\ IF HasNode(PrefixParts(StripChars(arg, {":"})))
                 THEN queue' = <<PrefixParts(StripChars(arg, {":"}))>> /\ pc' = "smart_pop"
                 ELSE queue' = queue /\ pc' = "close"
              /\ exit' = exit
        /\ UNCHANGED <<sent, i, discovered, seen, base_path, logVars>>
     \/ /\ pc = "smart_pop"
        /\ IF queue = <<>>
           THEN pc' = "persist" /\ UNCHANGED <<queue, base_path, i>>
           ELSE /\ base_path' = Head(queue) /\ queue' = Tail(queue)
                /\ i' = 1 /\ pc' = "smart_loop"
        /\ UNCHANGED <<exit, sent, known, discovered, seen, logVars>>
     \/ /\ pc = "smart_loop"
        /\ Cardinality(seen) < MaxSeen
        /\ LET suffix == guess_suffixes[i]
               trial == Trial(base_path, suffix)
           IN  IF trial \in known \/ trial \in seen \/ Skipped(trial)
               THEN UNCHANGED <<sent, discovered, seen, queue, logVars>>
               ELSE /\ seen' = seen \cup {trial}
                    /\ Try(trial, DRY_RUN)
                    /\ queue' = IF Len(discovered') > Len(discovered) /\ ~ DRY_RUN
                                THEN Append(queue, Append(base_path,
                                                   Upper(RStripChars(suffix, {"?"}))))
                                ELSE queue
        /\ i' = i + 1
        /\ pc' = IF i = Len(guess_suffixes) THEN "smart_pop" ELSE "smart_loop"
        /\ UNCHANGED <<exit, known, base_path>>
  /\ UNCHANGED <<fileVars, argVars, ioVars, connVars, cmds, results, child_prefix, j, written>>

(* ------------------------------ focus --------------------------------- *)
\* main: the prefix focus_probe gets from --target
FocusPrefix(t) ==
  IF t = None \/ Upper(t) = <<"P","O","W","E","R","_","Q","U","A","L","I","T","Y">> THEN <<":","P","O","W","e","r",":","Q","U","A","L","i","t","y",":">>
  ELSE <<":">> \o Upper(Replace(Upper(t), <<"_">>, <<":">>)) \o <<":">>

\* the wordlist as it would be iterated if it were held in a set, whose iteration
\* order differs from one process to the next
FocusWordlistAsSet ==
  LET list == IF wordlist.given THEN StrippedLines(wordlist.lines)
              ELSE SubSeq(POWER_QUALITY_GUESSES, 1, MaxSuffixes)
  IN  IF run = 2 THEN [k \in DOMAIN list |-> list[Len(list) + 1 - k]] ELSE list

\* the suffixes focus_probe iterates: the --wordlist file's lines, or the built-in list
FocusWordlist ==
  IF wordlist.given THEN StrippedLines(wordlist.lines)
  ELSE SubSeq(POWER_QUALITY_GUESSES, 1, MaxSuffixes)

deep_suffixes == SubSeq(DEEP_SUFFIXES, 1, MaxSuffixes)

\* the follow-up candidate built from the child prefix and one of the four suffixes
Deep(prefix_parts, suffix2) ==
  Replace(<<":">> \o Join(prefix_parts, <<":">>) \o <<":">> \o suffix2, <<":",":">>, <<":">>)

\* open(COMMAND_FILE, "a").write(cmd + "\n")
AppendCommand(cmd) == [files EXCEPT ![COMMAND_FILE] = Append(@, cmd \o <<"\n">>)]

\* doom.py focus_probe(scope, idn, prefix, wordlist)
focus_probe ==
  /\ script = "doom.py"
  /\ \/ /\ pc = "focus_probe"
        /\ \/ /\ ~ Exists(COMMAND_FILE)
              /\ Finish("sys.exit")
              /\ UNCHANGED <<known, cmds>>
           \/ /\ Exists(COMMAND_FILE)
              /\ cmds' = FocusWordlist
              /\ known' = Range(load_all_commands(None))
              /\ pc' = (IF FocusWordlist = <<>> THEN "focus_end" ELSE "focus_loop")
              /\ exit' = exit
        /\ UNCHANGED <<files, sent, i, discovered, seen, child_prefix, j, logVars>>
     \/ /\ pc = "focus_loop"
        /\ LET cmd == RStripChars(FocusPrefix(arg), {":"}) \o <<":">> \o cmds[i]
               next == IF i = Len(cmds) THEN "focus_end" ELSE "focus_loop"
           IN  IF cmd \in known \/ cmd \in seen \/ Skipped(cmd)
               THEN /\ pc' = next
                    /\ UNCHANGED <<files, sent, discovered, seen, child_prefix, j, logVars>>
               ELSE /\ seen' = seen \cup {cmd}
                    /\ \/ /\ DRY_RUN
                          /\ discovered' = Append(discovered, <<cmd, ResDry>>)
                          /\ Chatter
                          /\ pc' = next
                          /\ UNCHANGED <<files, sent, child_prefix, j>>
                       \/ /\ ~ DRY_RUN
                          /\ \E o \in Outcomes :
                             LET r == Strip(o.text) IN
                             /\ sent' = Append(sent, Query(cmd, o))
                             /\ IF o.kind = "text" /\ r # <<>>
                                THEN /\ discovered' = Append(discovered, <<cmd, r>>)
                                     /\ files' = IF cmd \notin known THEN AppendCommand(cmd)
                                                                     ELSE files
                                     /\ IF depth > 1 /\ IsAlpha(r) /\ Len(r) < 12
                                        THEN /\ child_prefix' =
                                                  Append(Split(RStripChars(cmd, {"?"}), ":"),
                                                         Upper(Strip(r)))
                                             /\ j' = 1
                                             /\ pc' = "focus_deep"
                                             /\ UNCHANGED logVars
                                        ELSE /\ pc' = next
                                             /\ Chatter
                                             /\ UNCHANGED <<child_prefix, j>>
                                ELSE /\ pc' = next
                                     /\ IF o.kind = "raise" THEN UNCHANGED logVars
                                                            ELSE Chatter
                                     /\ UNCHANGED <<files, discovered, child_prefix, j>>
        /\ i' = i + 1
        /\ UNCHANGED <<exit, known, cmds>>
     \/ /\ pc = "focus_deep"
        /\ LET deep == Deep(child_prefix, deep_suffixes[j]) IN
           IF deep \in seen
           THEN UNCHANGED <<files, sent, discovered, seen>>
           ELSE /\ seen' = seen \cup {deep}
                /\ \E o \in Outcomes :
                     /\ sent' = Append(sent, Query(deep, o))
                     /\ IF o.kind = "text" /\ Strip(o.text) # <<>>
                        THEN /\ discovered' = Append(discovered, <<deep, Strip(o.text)>>)
                             /\ files' = AppendCommand(deep)
                        ELSE UNCHANGED <<files, discovered>>
        /\ j' = j + 1
        /\ IF j < Len(deep_suffixes) THEN UNCHANGED logVars ELSE Chatter
        /\ pc' = IF j < Len(deep_suffixes) THEN "focus_deep"
                 ELSE IF i > Len(cmds) THEN "focus_end" ELSE "focus_loop"
        /\ UNCHANGED <<exit, known, cmds, i, child_prefix>>
     \/ /\ pc = "focus_end"
        /\ IF discovered = <<>>
           THEN UNCHANGED <<files, written>>
           ELSE /\ written' = Append(written, [name |-> <<"l","e","a","r","n","e","d","_","f","o","c","u","s","_">> \o WriteTag,
                                               idn |-> None, lines |-> FocusLines(discovered)])
                /\ files' = WriteFile(<<"l","e","a","r","n","e","d","_","f","o","c","u","s","_","l","a","t","e","s","t","_">> \o WriteTag \o <<".","t","x","t">>,
                                      FocusLines(discovered))
        /\ pc' = "close"
        /\ UNCHANGED <<exit, sent, known, cmds, i, discovered, seen, child_prefix, j, logVars>>
  /\ \/ pc = "focus_end"
     \/ UNCHANGED written
  /\ UNCHANGED <<argVars, ioVars, connVars, results, queue, base_path>>

(* ------------------------- waveform and send -------------------------- *)
\* the transport calls of run_waveform_test, in order
WaveformCalls(channel) ==
  [k \in 1..5 |-> Write(WAVEFORM_WRITES(channel)[k], Returned)]
    \o << Query(<<":","W","A","V",":","P","R","E","?">>, [kind |-> "text", text |-> <<"0",",","0",",","1","2","0","0","\n">>]),
          [op |-> "query_binary_values", cmd |-> <<":","W","A","V",":","D","A","T","A","?">>, out |-> Returned] >>

\* run_waveform_test(scope, channel): the first call that raises ends the sequence
run_waveform_test ==
  /\ pc = "run_waveform_test"
  /\ \E n \in 0..Len(WaveformCalls(arg)) :
       sent' = sent \o SubSeq(WaveformCalls(arg), 1, n)
                    \o (IF n < Len(WaveformCalls(arg))
                        THEN <<[WaveformCalls(arg)[n + 1] EXCEPT !.out = Raised]>>
                        ELSE <<>>)
  /\ pc' = "close"
  /\ UNCHANGED <<fileVars, argVars, ioVars, logVars, connVars, exit, probeVars, written>>

\* main, mode "send": with a command on the command line connect, send it once, close;
\* with none, connect, load the commands for autocompletion and open the console
send ==
  /\ script = "doom.py" /\ mode = "send"
  /\ \/ /\ pc = "main"
        /\ \/ target \in {"--ip", "--usb"} /\ pc' = "connect" /\ exit' = exit
           \/ target = "--usb" /\ Finish("sys.exit")
           \/ target = "none" /\ Finish("return")
        /\ UNCHANGED sent
     \/ /\ pc = "send" /\ arg # None
        /\ \E o \in Outcomes :
             sent' = Append(sent, IF Contains(arg, <<"?">>) THEN Query(arg, o)
                                                          ELSE Write(arg, o))
        /\ pc' = "close" /\ exit' = exit
     \/ /\ pc = "send" /\ arg = None
        /\ IF Exists(COMMAND_FILE) THEN pc' = "console" /\ exit' = exit
                                    ELSE Finish("sys.exit")
        /\ UNCHANGED sent
  /\ UNCHANGED <<fileVars, argVars, ioVars, logVars, connVars, probeVars, written>>

\* main, the interactive console: one pass of `while True` around input()
console ==
  /\ pc = "console"
  /\ IF stdin = <<>>
     THEN \* input() raises EOFError, `except Exception` logs it, the loop goes on
          /\ eof' = TRUE
          /\ UNCHANGED <<stdin, sent, pc>>
     ELSE LET cmd == Strip(Head(stdin)) IN
          /\ stdin' = Tail(stdin)
          /\ eof' = eof
          /\ IF cmd = <<>>
             THEN UNCHANGED <<sent, pc>>
             ELSE IF Lower(cmd) \in { <<"e","x","i","t">>, <<"q","u","i","t">> }
             THEN pc' = "close" /\ UNCHANGED sent
             ELSE /\ \E o \in Outcomes :
                       sent' = Append(sent, IF Contains(cmd, <<"?">>) THEN Query(cmd, o)
                                                                    ELSE Write(cmd, o))
                  /\ pc' = pc
  /\ UNCHANGED <<fileVars, argVars, logVars, connVars, exit, probeVars, written>>

(* --------------------------- persistence ------------------------------ *)
\* the persistence step as it would be if the files were opened before looking at
\* `discovered`: an empty run would write an empty timestamped file and empty the latest
persistAlways ==
  /\ pc = "persist"
  /\ IF script = "doom2.py"
     THEN /\ written' = Append(written, [name |-> <<"l","e","a","r","n","e","d","_","s","c","p","i","_","c","o","m","m","a","n","d","s">>, idn |-> None,
                                         lines |-> [k \in DOMAIN discovered |->
                                                      discovered[k][1] \o <<"\n">>]])
          /\ files' = WriteFile(LEARNED_PLAIN, [k \in DOMAIN discovered |->
                                                    discovered[k][1] \o <<"\n">>])
     ELSE /\ written' = Append(written, [name |-> <<"l","e","a","r","n","e","d","_","s","c","p","i","_">> \o WriteTag, idn |-> None,
                                         lines |-> LearnedLines(discovered)])
          /\ files' = WriteFile(<<"l","e","a","r","n","e","d","_","s","c","p","i","_","l","a","t","e","s","t","_">> \o WriteTag \o <<".","t","x","t">>,
                                LearnedLines(discovered))
  /\ pc' = "close"
  /\ UNCHANGED <<argVars, ioVars, logVars, connVars, exit, sent, probeVars>>

\* the end of learn_scope / smart_learn_scope: nothing is written when nothing was found
persist ==
  /\ pc = "persist"
  /\ IF discovered = <<>>
     THEN UNCHANGED <<files, written>>
     ELSE IF script = "doom2.py"
     THEN /\ written' = Append(written, [name |-> <<"l","e","a","r","n","e","d","_","s","c","p","i","_","c","o","m","m","a","n","d","s">>, idn |-> None,
                                         lines |-> [k \in DOMAIN discovered |->
                                                      discovered[k][1] \o <<"\n">>]])
          /\ files' = WriteFile(LEARNED_PLAIN, [k \in DOMAIN discovered |->
                                                    discovered[k][1] \o <<"\n">>])
     ELSE /\ written' = Append(written, [name |-> <<"l","e","a","r","n","e","d","_","s","c","p","i","_">> \o WriteTag, idn |-> None,
                                         lines |-> LearnedLines(discovered)])
          /\ files' = WriteFile(<<"l","e","a","r","n","e","d","_","s","c","p","i","_","l","a","t","e","s","t","_">> \o WriteTag \o <<".","t","x","t">>,
                                LearnedLines(discovered))
  /\ pc' = "close"
  /\ UNCHANGED <<argVars, ioVars, logVars, connVars, exit, sent, probeVars>>

(* ------------------------------ output -------------------------------- *)
LogName ==
  CASE script = "scpi_doom_tester.py" -> <<"s","c","p","i","_","d","o","o","m","_","l","o","g">>
    [] script = "doom2.py" /\ mode = "group" -> <<"d","o","o","m","2","_","l","o","g","_","g","r","o","u","p","_">> \o arg
    [] script = "doom2.py" -> <<"d","o","o","m","2","_","l","o","g","_">> \o (IF mode = "test" THEN <<"t","e","s","t","_","a","l","l">> ELSE <<"f","u","z","z">>)
    [] mode = "group" -> <<"d","o","o","m","_","l","o","g","_","g","r","o","u","p","_">> \o arg
    [] OTHER -> <<"d","o","o","m","_","l","o","g","_">> \o (IF mode = "test" THEN <<"t","e","s","t","_","a","l","l">> ELSE <<"f","u","z","z">>)

\* save_log(name, results, idn): one timestamped file holding every result
save_log ==
  /\ pc = "save_log"
  /\ written' = Append(written, [name |-> LogName, idn |-> idn, lines |-> results])
  /\ IF script = "scpi_doom_tester.py" THEN Finish("return")
                                        ELSE pc' = "close" /\ exit' = exit
  /\ UNCHANGED <<fileVars, argVars, ioVars, logVars, connVars, sent, probeVars>>

\* main: scope.close() after the mode's function has returned
close ==
  /\ pc = "close"
  /\ conn' = "closed"
  /\ Finish("return")
  /\ UNCHANGED <<fileVars, argVars, ioVars, logVars, scope, idn, sent, probeVars, written>>

(* ---------------------------- interruption ---------------------------- *)
\* loops that run inside `try: ... except KeyboardInterrupt:`
Guarded ==
  \/ script = "doom.py" /\ pc \in {"fuzz_loop", "learn_loop", "smart_pop", "smart_loop",
                                   "focus_loop", "focus_deep", "console"}
  \/ script = "doom2.py" /\ pc = "learn_loop"

\* where a guarded loop goes when the user interrupts it
AfterInterrupt ==
  CASE pc = "fuzz_loop" -> "save_log"
    [] pc \in {"focus_loop", "focus_deep"} -> "focus_end"
    [] pc = "console" -> "close"
    [] OTHER -> "persist"

LoopPcs == {"test_all_loop", "test_group_loop", "test_scope_loop", "fuzz_loop",
            "learn_loop", "smart_pop", "smart_loop", "focus_loop", "focus_deep", "console"}

\* Ctrl+C while a loop runs: caught by the loop's handler, or it ends the process
KeyboardInterrupt ==
  /\ pc \in LoopPcs
  /\ interrupted' = TRUE
  /\ IF Guarded THEN pc' = AfterInterrupt /\ exit' = exit
                ELSE Finish("KeyboardInterrupt")
  /\ UNCHANGED <<fileVars, files0, run, script, mode, DRY_RUN, arg, target, wordlist,
                 depth, first, ioVars, logVars, connVars, sent, probeVars, written>>

Next ==
  \/ Start
  \/ resolve_scope
  \/ tester_main
  \/ connect
  \/ test_all
  \/ test_group
  \/ test_all2
  \/ test_group2
  \/ test_scope
  \/ fuzz_scope
  \/ fuzz_scope2
  \/ learn_scope
  \/ learn_scope2
  \/ smart_learn_scope
  \/ focus_probe
  \/ run_waveform_test
  \/ send
  \/ console
  \/ persist
  \/ save_log
  \/ close
  \/ KeyboardInterrupt

Spec == Init /\ [][Next]_vars

\* a focus run of doom.py against a reachable address, with any options
StartFocus ==
  /\ pc = "shell"
  /\ \E a \in ArgsOf("focus") : \E d \in DryRunOf("doom.py") : \E w \in Wordlists :
     \E n \in Depths :
       Launch("doom.py", "focus", a, d, "--ip", w, n)

\* the same command line once more, in a directory put back to what it was: the prefix,
\* the wordlist, the depth and the known commands are those of the first process
Rerun ==
  /\ pc = "done" /\ run = 1
  /\ first' = [scope |-> scope, sent |-> sent, discovered |-> discovered,
               thoughts |-> thoughts]
  /\ files' = files0
  /\ run' = run + 1
  /\ pc' = "main" /\ exit' = "none" /\ interrupted' = FALSE
  /\ stdin' = <<>> /\ eof' = FALSE
  /\ pinky_logged' = FALSE /\ thoughts' = 0
  /\ conn' = "none" /\ scope' = FALSE /\ idn' = None
  /\ sent' = <<>> /\ cmds' = <<>> /\ i' = 1
  /\ known' = {} /\ results' = <<>> /\ discovered' = <<>> /\ seen' = {} /\ queue' = <<>>
  /\ base_path' = <<>> /\ child_prefix' = <<>> /\ j' = 1
  /\ written' = <<>>
  /\ UNCHANGED <<files0, script, mode, DRY_RUN, arg, target, wordlist, depth>>

\* two focus runs with the same inputs, one after the other
NextTwice ==
  \/ StartFocus
  \/ Rerun
  \/ resolve_scope
  \/ connect
  \/ focus_probe
  \/ close

SpecTwice == Init /\ [][NextTwice]_vars

\* a directory that holds the command list and nothing learned yet
InitRuns == Init /\ DOMAIN files = {COMMAND_FILE}

\* successive invocations that share the learned-command files
NextRuns ==
  \/ Invoke
  \/ resolve_scope
  \/ connect
  \/ test_all
  \/ test_all2
  \/ learn_scope
  \/ learn_scope2
  \/ smart_learn_scope
  \/ focus_probe
  \/ persist
  \/ save_log
  \/ close

SpecRuns == InitRuns /\ [][NextRuns]_vars

(* ------------------------------ claims -------------------------------- *)
ProbingModes == {"test", "group", "fuzz", "learn", "smart", "focus"}
BatchModes == {"test", "group", "fuzz"}
DiscoveryModes == {"learn", "smart", "focus"}

\* the commands of a result or discovered list, in order
CommandsOf(list) == [k \in DOMAIN list |-> list[k][1]]

\* the commands of a batch that its loop does not skip
Batch == IF script = "doom.py" THEN SelectSeq(cmds, LAMBDA c : ~ Skipped(c)) ELSE cmds

\* C1: in every probing mode of every script, no command that contains a skip pattern
\* is handed to the transport
C1_SkipPatternNeverSent ==
  mode \in ProbingModes => \A k \in DOMAIN sent : ~ Skipped(sent[k].cmd)

\* C2: when the loop of a test run has completed, the result list holds, in order, one
\* entry for each command of the known list without a skip pattern and no other entry
C2_OneEntryPerCommand ==
  (mode = "test" /\ pc = "save_log")
    => CommandsOf(results) = SelectSeq(cmds, LAMBDA c : ~ Skipped(c))

\* C3: in test, group and fuzz, every query sent has its own result entry; the entry of
\* a query that raised opens with the error mark and contains the exception text; and a
\* batch that was not interrupted ends with an entry for every command it does not skip
C3_ErrorRecordedBatchContinues ==
  (mode \in BatchModes /\ ~ DRY_RUN /\ sent # <<>>) =>
    /\ Len(results) = Len(sent) - 1
    /\ \A k \in DOMAIN results :
         /\ results[k][1] = sent[k + 1].cmd
         /\ sent[k + 1].out.kind = "raise" =>
              /\ Head(results[k][2]) = MARK_ERROR
              /\ Contains(results[k][2], sent[k + 1].out.text)
    /\ (pc = "save_log" /\ ~ interrupted) =>
         Len(results) = (IF mode = "fuzz" THEN MaxAttempts ELSE Len(Batch))

\* C3 witness: a batch ran to its end although a query before its last one raised
C3_Witness ==
  /\ mode \in BatchModes /\ pc = "save_log" /\ ~ interrupted
  /\ \E k \in DOMAIN results : k < Len(results) /\ sent[k + 1].out.kind = "raise"

\* C4: a query that returns text which is empty once stripped is recorded with the
\* Empty mark, never the Success mark; one that returns other text is recorded as the
\* Success mark followed by the stripped text; nothing empty is ever discovered
C4_EmptyIsNotSuccess ==
  /\ (mode \in BatchModes /\ ~ DRY_RUN) =>
       \A k \in DOMAIN results :
         (k + 1 \in DOMAIN sent /\ sent[k + 1].out.kind = "text") =>
           IF Strip(sent[k + 1].out.text) = <<>>
           THEN Head(results[k][2]) = MARK_EMPTY
           ELSE results[k][2] = ResSuccess(Strip(sent[k + 1].out.text))
  /\ (mode \in DiscoveryModes /\ ~ DRY_RUN) =>
       \A k \in DOMAIN discovered : discovered[k][2] # <<>>

\* C4 witness: a response of white space alone has been recorded as Empty
C4_Witness ==
  /\ mode \in BatchModes /\ ~ DRY_RUN
  /\ \E k \in DOMAIN results :
       /\ sent[k + 1].out = [kind |-> "text", text |-> <<"\n">>]
       /\ Head(results[k][2]) = MARK_EMPTY

\* C5: at every point of a discovery run no command occurs twice in the discovered list
C5_NoDuplicateDiscovery ==
  \A a, b \in DOMAIN discovered : discovered[a][1] = discovered[b][1] => a = b

\* C5 witness: a learn loop has discovered a command at each of its attempts
C5_Witness ==
  /\ mode = "learn" /\ pc = "persist" /\ Len(discovered) = MaxAttempts

\* C6: with --dry-run nothing is ever handed to the transport
C6_DryRunSendsNothing == DRY_RUN => sent = <<>>

\* C7: when a probing run that has results or discoveries is interrupted, they are in a
\* file the process wrote before it ended
C7_PartialResultsSaved ==
  (pc = "done" /\ interrupted /\ mode \in ProbingModes
     /\ (results # <<>> \/ discovered # <<>>))
    => \E k \in DOMAIN written :
         written[k].lines = (IF mode \in BatchModes THEN results
                             ELSE IF mode = "focus" THEN FocusLines(discovered)
                             ELSE LearnedLines(discovered))

\* C8: a later learn run of doom.py against the same instrument has, in its known set,
\* every command an earlier discovery run left in the instrument's latest file
C8_LaterLearnKnowsLearned ==
  (run > 1 /\ script = "doom.py" /\ mode = "learn" /\ pc = "learn_loop"
     /\ (<<"l","e","a","r","n","e","d","_","s","c","p","i","_","l","a","t","e","s","t","_">> \o Tag(idn) \o <<".","t","x","t">>) \in DOMAIN files0)
    => Range(StrippedLines(files0[<<"l","e","a","r","n","e","d","_","s","c","p","i","_","l","a","t","e","s","t","_">> \o Tag(idn) \o <<".","t","x","t">>]))
         \subseteq known

\* the latest file a discovery run of this script and mode writes
LatestName ==
  IF script = "doom2.py" THEN LEARNED_PLAIN
  ELSE IF mode = "focus" THEN <<"l","e","a","r","n","e","d","_","f","o","c","u","s","_","l","a","t","e","s","t","_">> \o WriteTag \o <<".","t","x","t">>
  ELSE <<"l","e","a","r","n","e","d","_","s","c","p","i","_","l","a","t","e","s","t","_">> \o WriteTag \o <<".","t","x","t">>

\* a discovery run that found something has been through its persistence step
Persisted == mode \in DiscoveryModes /\ pc \in {"close", "done"} /\ discovered # <<>>

\* C9 as claimed: after a discovery run that found something, every line a learned file
\* held before the run is still in it
C9_LearnedFilesOnlyGrow ==
  Persisted =>
    \A name \in DOMAIN files0 \ {COMMAND_FILE} : Range(files0[name]) \subseteq Range(files[name])

\* C9 as amended: after a discovery run that found something, the latest file holds the
\* discoveries of this run, in order, and nothing else; the other learned files are as
\* they were
C9_LatestHoldsThisRun ==
  Persisted =>
    /\ LatestName \in DOMAIN files
    /\ files[LatestName] = (IF mode = "focus" THEN FocusLines(discovered)
                            ELSE LearnedLines(discovered))
    /\ \A name \in DOMAIN files0 \ {COMMAND_FILE, LatestName} : files[name] = files0[name]

\* C9 witness: a discovery run has replaced what the latest file held before
C9_Witness ==
  /\ Persisted
  /\ LatestName \in DOMAIN files0
  /\ ~ (Range(files0[LatestName]) \subseteq Range(files[LatestName]))

\* C10: within a discovery run no command is handed to the transport twice
C10_NoCandidateSentTwice ==
  mode \in DiscoveryModes =>
    \A a, b \in DOMAIN sent : sent[a].cmd = sent[b].cmd => a = b

\* C11: in a discovery run no command of the known set loaded at its start is handed to
\* the transport or added to the discovered list
C11_KnownNeverProbed ==
  (mode \in DiscoveryModes /\ pc \notin {"main", "connect"}) =>
    /\ \A k \in DOMAIN sent : sent[k].cmd \notin known
    /\ \A k \in DOMAIN discovered : discovered[k][1] \notin known

\* C12 as claimed: every entry of a result list opens with the Success, the Empty or the
\* Error mark, and with no other
C12_ThreeClassifications ==
  mode \in BatchModes =>
    \A k \in DOMAIN results : Head(results[k][2]) \in {MARK_SUCCESS, MARK_EMPTY, MARK_ERROR}

\* C12 as amended: without --dry-run every entry of a result list carries exactly one of
\* Success, Empty and Error, and which one is decided by its query alone: Error when it
\* raised, Success when it returned text that is not empty once stripped, Empty when it
\* returned other text; with --dry-run every entry is the dry-run entry instead
C12_ClassifiedByOutcome ==
  mode \in BatchModes =>
    \A k \in DOMAIN results :
      IF DRY_RUN THEN results[k][2] = ResDry
      ELSE /\ k + 1 \in DOMAIN sent
           /\ LET o == sent[k + 1].out
                  tag == Head(results[k][2])
              IN  /\ tag \in {MARK_SUCCESS, MARK_EMPTY, MARK_ERROR}
                  /\ tag = MARK_ERROR <=> o.kind = "raise"
                  /\ tag = MARK_SUCCESS <=> (o.kind = "text" /\ Strip(o.text) # <<>>)
                  /\ tag = MARK_EMPTY <=> (o.kind = "text" /\ Strip(o.text) = <<>>)

\* C12 witness: one result list holds an entry of each of the three classifications
C12_Witness ==
  /\ mode \in BatchModes /\ ~ DRY_RUN
  /\ \A tag \in {MARK_SUCCESS, MARK_EMPTY, MARK_ERROR} :
       \E k \in DOMAIN results : Head(results[k][2]) = tag

\* the process was ended by sys.exit(1) or by an exception nothing caught
Fatal == exit \notin {"none", "return"}

LearnedFromAnswer(line) ==
  \E m \in DOMAIN sent :
    /\ sent[m].out.kind = "text" /\ Strip(sent[m].out.text) # <<>>
    /\ line \in { sent[m].cmd \o <<"\n">>,
                  sent[m].cmd \o ARROW \o Strip(sent[m].out.text) \o <<"\n">> }

\* C14: every line a discovery run has written to a learned-command file, timestamped or
\* latest, names a command the run sent and that answered with non-empty text
C14_WrittenWasAnswered ==
  (mode \in DiscoveryModes /\ written # <<>>) =>
    /\ \A k \in DOMAIN written :
         \A n \in DOMAIN written[k].lines : LearnedFromAnswer(written[k].lines[n])
    /\ \A n \in DOMAIN files[LatestName] : LearnedFromAnswer(files[LatestName][n])

\* the modes that build their candidates themselves
GeneratingModes == {"fuzz", "learn", "smart", "focus"}

\* C15: every command a generating mode hands to the transport after the identification
\* query ends with "?"
C15_CandidatesAreQueries ==
  mode \in GeneratingModes =>
    \A k \in DOMAIN sent : k > 1 => sent[k].cmd[Len(sent[k].cmd)] = "?"

\* C17: a process that has ended holds no open instrument connection: whatever
\* connection it opened has been closed, on every path to its end
C17_OpenedIsClosed ==
  pc = "done" => conn # "open"

\* `path` leads from the root of the command tree to one of its nodes
IsTreePath(path) ==
  \E p \in TreePaths : Len(p) >= Len(path) /\ SubSeq(p, 1, Len(path)) = path

C19_ConsoleEndsWithInput ==
  eof => pc # "console"

\* how many lines of a command file hold the command `c`
Occurrences(c, lines) ==
  Cardinality({k \in DOMAIN lines : Strip(lines[k]) = c})

\* C20: in a focus run every command of the command file occurs in it as often as it
\* did when the run started, and exactly once if the run has appended it
C20_NoDuplicateAppended ==
  (mode = "focus" /\ Exists(COMMAND_FILE) /\ COMMAND_FILE \in DOMAIN files0) =>
    LET before == files0[COMMAND_FILE]
        after == files[COMMAND_FILE]
    IN  \A k \in DOMAIN after :
          LET c == Strip(after[k]) IN
          Occurrences(c, after) = IF Occurrences(c, before) > 0
                                  THEN Occurrences(c, before) ELSE 1

\* the instrument gave the same response to every command both histories hold
SameAnswers(a, b) ==
  \A x \in DOMAIN a : \A y \in DOMAIN b : a[x].cmd = b[y].cmd => a[x].out = b[y].out

\* C16: of two focus runs with the same prefix, wordlist, depth and known commands
\* that got the same response to each command, the second has sent the same commands
\* in the same order and ends with the same discovered list as the first
C16_FocusDeterministic ==
  (run = 2 /\ pc = "done" /\ first.scope /\ scope /\ SameAnswers(first.sent, sent)) =>
    /\ sent = first.sent
    /\ discovered = first.discovered

\* two such runs that probed and discovered, and whose log chatter differed
C16_Witness ==
  /\ run = 2 /\ pc = "done" /\ first.scope /\ scope /\ SameAnswers(first.sent, sent)
  /\ Len(sent) >= 3 /\ discovered # <<>>
  /\ thoughts # first.thoughts

\* a discovery run is past its persistence step, or ended before it, with nothing found
EndedEmpty == mode \in DiscoveryModes /\ pc \in {"close", "done"} /\ discovered = <<>>

====
